---- MODULE Spec2Model ----
(***************************************************************************)
(* MemPro memory analyzer (analyzer.go, types.go): the MemoryAnalyzer      *)
(* holds one parsed MemProData snapshot and answers five queries on it.    *)
(* The tool handlers of the server (main.go) each load an analyzer of      *)
(* their own from the report file and call its methods.                    *)
(*                                                                         *)
(* Numbers.  int and int64 fields are integers (negative values parse).    *)
(* float64 percentages (MemoryFragmentation) are kept in hundredths of a   *)
(* percent, so 80.0 is Pct(80) = 8000 and 80.01 is 8001.  AverageSize and  *)
(* LeakScore are kept as whole numbers.  The leak percentage is kept as    *)
(* the exact fraction <<numerator, denominator>>; for byte counts below    *)
(* 2^53 the float64 comparison with 50 agrees with the exact one.          *)
(* Strings that the code searches (FunctionName) are sequences of          *)
(* characters; report texts are kept as the values they print.             *)
(***************************************************************************)
EXTENDS Integers, Sequences, FiniteSets, TLC

VARIABLES
  data,         \* the analyzer under study: its MemProData
  pc,           \* the method it returned from last, "loaded" before the first call
  arg,          \* that call's argument
  ret,          \* that call's return value
  sortOutcome,  \* what sort.Slice has made of each input it was given
  observed,     \* history: the snapshot as loaded, and one call picked for comparison
  files,        \* the file system: path -> content
  reqs          \* the tool requests of the server

vars == <<data, pc, arg, ret, sortOutcome, observed, files, reqs>>

-----------------------------------------------------------------------------
(* Bounds of the model *)

MaxLeaks == 3
MaxFunctions == 2
MaxParts == 2
MaxRequests == 2

-----------------------------------------------------------------------------
(* Generic helpers *)

Range(s) == {s[i] : i \in DOMAIN s}

SeqToBag(s) == [x \in Range(s) |-> Cardinality({i \in DOMAIN s : s[i] = x})]

SeqsUpTo(S, n) == UNION {[1..k -> S] : k \in 0..n}

RECURSIVE SelectIdx(_, _, _)
\* the indices i >= from of s with keep[i], in increasing order
SelectIdx(keep, n, from) ==
  IF from > n THEN <<>>
  ELSE IF keep[from] THEN <<from>> \o SelectIdx(keep, n, from + 1)
       ELSE SelectIdx(keep, n, from + 1)

\* strings.Contains on character sequences
Contains(s, sub) ==
  \E i \in 0..(Len(s) - Len(sub)) : SubSeq(s, i + 1, i + Len(sub)) = sub

\* sort.Slice(x, less): x is left sorted by less; "the sort is not guaranteed
\* to be stable", so every arrangement of x with no element placed before one
\* that is less than it is a possible outcome.  less[a, b] is the comparator's
\* answer for the elements a and b of x.
SortSlice(x, less) ==
  LET n == Len(x)
      perms == {p \in [1..n -> 1..n] : \A i, j \in 1..n : i # j => p[i] # p[j]}
      arranged == {[i \in 1..n |-> x[p[i]]] : p \in perms}
  IN  {y \in arranged : \A i, j \in 1..n : i < j => ~less[y[j], y[i]]}

\* sort.Slice is a function of its input: the order it gives to equal elements
\* is not specified, but the same input is arranged the same way every time.
\* memo holds the arrangements made so far, by input.
SortOutcomes(memo, key, x, less) ==
  IF key \in DOMAIN memo THEN {memo[key]} ELSE SortSlice(x, less)

Remember(memo, key, y) ==
  IF key \in DOMAIN memo THEN memo ELSE memo @@ (key :> y)

NoOutcomes == [k \in {} |-> k]

-----------------------------------------------------------------------------
(* Data: types.go *)

Pct(x) == x * 100

MarkerUnknown == <<"U","n","k","n","o","w","n"," ","F","u","n","c","t","i","o","n">>
MarkerAllocate == <<"s","t","d",":",":","_","A","l","l","o","c","a","t","e">>
MarkerVector == <<"s","t","d",":",":","v","e","c","t","o","r">>
MarkerMain == <<"m","a","i","n">>

NameUnknown == MarkerUnknown \o <<" ","a","t"," ","0","x","1">>
NameMain == MarkerMain
NamePlain == <<"l","o","a","d">>

\* where a leak was recorded: FunctionName, FileName, LineNumber, CallStack
Sites ==
  { [FunctionName |-> NameMain, FileName |-> "main.cpp", LineNumber |-> 10,
     CallStack |-> "main"],
    [FunctionName |-> NameUnknown, FileName |-> "", LineNumber |-> 0,
     CallStack |-> ""] }

MkLeak(site, size, count, score, suspect) ==
  [FunctionName |-> site.FunctionName, FileName |-> site.FileName,
   LineNumber |-> site.LineNumber, LeakSize |-> size, LeakCount |-> count,
   LeakScore |-> score, CallStack |-> site.CallStack, IsSuspect |-> suspect]

\* every threshold of the leak rules, from both sides
LeakSizes == {0, 10000, 10001, 50000, 50001, 100000, 100001}
LeakCounts == {0, 100, 101}

LeakRecords ==
  {MkLeak(s, z, c, 1, b) : s \in Sites, z \in LeakSizes, c \in LeakCounts,
                           b \in BOOLEAN}

\* a coarser grid for the longer leak lists: every severity occurs, and so
\* do equal sizes within one severity
LeakSample ==
  {MkLeak(s, z, c, 1, b) :
     s \in {x \in Sites : x.FunctionName = NameMain},
     z \in {0, 10000, 100001}, c \in {0, 101}, b \in BOOLEAN}

MkData(leaks, functions, totalSize, leakSize, frag, totalAllocs) ==
  [SessionName |-> "session", TotalAllocations |-> totalAllocs,
   TotalSize |-> totalSize, LeakCount |-> Len(leaks), LeakSize |-> leakSize,
   MemoryFragmentation |-> frag, Functions |-> functions, Leaks |-> leaks]

NoData == [nil |-> TRUE]
NoReturn == [none |-> TRUE]

-----------------------------------------------------------------------------
(* Leak analysis: analyzer.go *)

calculateLeakSeverity_gte(leak) ==
  IF leak.IsSuspect /\ leak.LeakSize >= 100000 THEN "Critical"
  ELSE IF leak.IsSuspect \/ leak.LeakSize >= 50000 THEN "High"
  ELSE IF leak.LeakSize >= 10000 \/ leak.LeakCount >= 100 THEN "Medium"
  ELSE "Low"

calculateLeakSeverity(leak) ==
  IF leak.IsSuspect /\ leak.LeakSize > 100000 THEN "Critical"
  ELSE IF leak.IsSuspect \/ leak.LeakSize > 50000 THEN "High"
  ELSE IF leak.LeakSize > 10000 \/ leak.LeakCount > 100 THEN "Medium"
  ELSE "Low"

formatLeakDescription(leak) ==
  IF Contains(leak.FunctionName, MarkerUnknown)
  THEN <<"Unknown function leaked", leak.LeakSize, leak.LeakCount,
         "missing debug symbols">>
  ELSE <<"Function leaked", leak.LeakSize, leak.LeakCount>>

generateLeakSuggestion_mainFirst(leak) ==
  IF Contains(leak.FunctionName, MarkerUnknown) THEN "Enable debug symbols"
  ELSE IF Contains(leak.FunctionName, MarkerMain) THEN "Leak from main"
  ELSE IF Contains(leak.FunctionName, MarkerAllocate)
          \/ Contains(leak.FunctionName, MarkerVector)
       THEN "STL container leak"
  ELSE "Use smart pointers"

generateLeakSuggestion(leak) ==
  IF Contains(leak.FunctionName, MarkerUnknown) THEN "Enable debug symbols"
  ELSE IF Contains(leak.FunctionName, MarkerAllocate)
          \/ Contains(leak.FunctionName, MarkerVector)
       THEN "STL container leak"
  ELSE IF Contains(leak.FunctionName, MarkerMain) THEN "Leak from main"
  ELSE "Use smart pointers"

LeakIssue(leak) ==
  [Severity |-> calculateLeakSeverity(leak), Type |-> "MemoryLeak",
   Description |-> formatLeakDescription(leak),
   FunctionName |-> leak.FunctionName, FileName |-> leak.FileName,
   LineNumber |-> leak.LineNumber, Size |-> leak.LeakSize,
   Count |-> leak.LeakCount, Score |-> leak.LeakScore,
   Suggestion |-> generateLeakSuggestion(leak)]

LeakSkipped_or(leak) == leak.LeakSize = 0 \/ leak.LeakCount = 0

\* the `continue` of the collecting loop
LeakSkipped(leak) == leak.LeakSize = 0 /\ leak.LeakCount = 0

\* the issues appended by the loop over ma.data.Leaks, in list order
CollectLeakIssues(leaks) ==
  LET keep == [i \in DOMAIN leaks |-> ~LeakSkipped(leaks[i])]
      idx == SelectIdx(keep, Len(leaks), 1)
  IN  [k \in DOMAIN idx |-> LeakIssue(leaks[idx[k]])]

severityOrder(sev) ==
  CASE sev = "Critical" -> 0
    [] sev = "High" -> 1
    [] sev = "Medium" -> 2
    [] sev = "Low" -> 3
    [] OTHER -> 999

IssueLess_sizeOnly(a, b) == a.Size > b.Size

IssueLess_asc(a, b) ==
  IF severityOrder(a.Severity) # severityOrder(b.Severity)
  THEN severityOrder(a.Severity) < severityOrder(b.Severity)
  ELSE a.Size < b.Size

\* the comparator handed to sort.Slice
IssueLess(a, b) ==
  IF severityOrder(a.Severity) # severityOrder(b.Severity)
  THEN severityOrder(a.Severity) < severityOrder(b.Severity)
  ELSE a.Size > b.Size

\* the issues as collected, before the sort
IssuesToSort(d) == IF d = NoData THEN <<>> ELSE CollectLeakIssues(d.Leaks)

AnalyzeLeaksResults(d, memo) ==
  IF d = NoData THEN {<<>>}
  ELSE LET issues == CollectLeakIssues(d.Leaks)
       IN  SortOutcomes(memo, <<"issues", issues>>, issues,
                        [a \in Range(issues), b \in Range(issues) |-> IssueLess(a, b)])

AnalyzeLeaks ==
  /\ \E issues \in AnalyzeLeaksResults(data, sortOutcome) :
       /\ ret' = issues
       /\ sortOutcome' = Remember(sortOutcome, <<"issues", IssuesToSort(data)>>, issues)
  /\ pc' = "AnalyzeLeaks"
  /\ arg' = 0
  /\ UNCHANGED <<data, files, reqs>>

-----------------------------------------------------------------------------
(* Fragmentation analysis: analyzer.go *)

FragmentationIssue(d, severity, description, suggestion) ==
  [Severity |-> severity, Type |-> "MemoryFragmentation",
   Description |-> <<description, d.MemoryFragmentation>>,
   FunctionName |-> <<>>, FileName |-> "", LineNumber |-> 0,
   Size |-> d.TotalSize, Count |-> d.TotalAllocations,
   Score |-> d.MemoryFragmentation, Suggestion |-> suggestion]

AnalyzeFragmentationResult_gte(d) ==
  IF d = NoData THEN <<>>
  ELSE IF d.MemoryFragmentation >= Pct(80)
       THEN <<FragmentationIssue(d, "High", "severe fragmentation",
                                 "Object pooling or memory arenas")>>
  ELSE IF d.MemoryFragmentation >= Pct(50)
       THEN <<FragmentationIssue(d, "Medium", "may impact performance",
                                 "Monitor fragmentation levels")>>
  ELSE <<>>

AnalyzeFragmentationResult(d) ==
  IF d = NoData THEN <<>>
  ELSE IF d.MemoryFragmentation > Pct(80)
       THEN <<FragmentationIssue(d, "High", "severe fragmentation",
                                 "Object pooling or memory arenas")>>
  ELSE IF d.MemoryFragmentation > Pct(50)
       THEN <<FragmentationIssue(d, "Medium", "may impact performance",
                                 "Monitor fragmentation levels")>>
  ELSE <<>>

AnalyzeFragmentation ==
  /\ ret' = AnalyzeFragmentationResult(data)
  /\ pc' = "AnalyzeFragmentation"
  /\ arg' = 0
  /\ UNCHANGED <<data, sortOutcome, files, reqs>>

-----------------------------------------------------------------------------
(* Large allocations: analyzer.go *)

MkFunction(name, count, total, average, max) ==
  [FunctionName |-> name, FileName |-> "alloc.cpp", LineNumber |-> 7,
   AllocationCount |-> count, TotalSize |-> total, AverageSize |-> average,
   MinSize |-> 0, MaxSize |-> max, Percentage |-> 0]

\* every threshold of the large-allocation rules, from both sides
AverageSizes == {10000, 10001}
MaxSizes == {50000, 50001, 100000, 100001}

FunctionRecords ==
  {MkFunction(nm, 3, 3 * a, a, m) :
     nm \in {NameMain, NamePlain}, a \in AverageSizes, m \in MaxSizes}

IsLargeAllocation_and(fn) == fn.AverageSize > 10000 /\ fn.MaxSize > 50000

IsLargeAllocation(fn) == fn.AverageSize > 10000 \/ fn.MaxSize > 50000

LargeAllocationIssue(fn) ==
  [Severity |-> IF fn.MaxSize > 100000 THEN "High" ELSE "Medium",
   Type |-> "LargeAllocation",
   Description |-> <<"Large allocation detected", fn.AverageSize, fn.MaxSize,
                     fn.AllocationCount>>,
   FunctionName |-> fn.FunctionName, FileName |-> fn.FileName,
   LineNumber |-> fn.LineNumber, Size |-> fn.TotalSize,
   Count |-> fn.AllocationCount, Score |-> fn.MaxSize,
   Suggestion |-> "Split, stream or chunk large allocations"]

AnalyzeLargeAllocationsResult(d) ==
  IF d = NoData THEN <<>>
  ELSE LET fns == d.Functions
           keep == [i \in DOMAIN fns |-> IsLargeAllocation(fns[i])]
           idx == SelectIdx(keep, Len(fns), 1)
       IN  [k \in DOMAIN idx |-> LargeAllocationIssue(fns[idx[k]])]

AnalyzeLargeAllocations ==
  /\ ret' = AnalyzeLargeAllocationsResult(data)
  /\ pc' = "AnalyzeLargeAllocations"
  /\ arg' = 0
  /\ UNCHANGED <<data, sortOutcome, files, reqs>>

-----------------------------------------------------------------------------
(* Summary: analyzer.go *)

NoDataError == [text |-> "Error: No data available for analysis"]

\* the fraction num/den, den > 0, exceeds the whole number k
FractionAbove(f, k) == f[1] > k * f[2]

leakPercentage_nonzero(d) ==
  IF d.TotalSize # 0 THEN
    IF d.TotalSize > 0 THEN <<d.LeakSize * 100, d.TotalSize>>
    ELSE <<(0 - d.LeakSize) * 100, 0 - d.TotalSize>>
  ELSE <<0, 1>>

\* leakPercentage := 0.0; if TotalSize > 0 { LeakSize / TotalSize * 100 }
leakPercentage(d) ==
  IF d.TotalSize > 0 THEN <<d.LeakSize * 100, d.TotalSize>> ELSE <<0, 1>>

RECURSIVE CountSuspect(_, _)
\* suspectLeaks after the first n records
CountSuspect(leaks, n) ==
  IF n = 0 THEN 0
  ELSE CountSuspect(leaks, n - 1) + (IF leaks[n].IsSuspect THEN 1 ELSE 0)

\* the lines appended below "Critical Findings:"
CriticalFindings(d) ==
  (IF FractionAbove(leakPercentage(d), 50)
   THEN <<<<"CRITICAL: Over 50% of allocated memory is leaked!">>>> ELSE <<>>)
  \o (IF d.MemoryFragmentation > Pct(80)
      THEN <<<<"HIGH: Severe memory fragmentation detected">>>> ELSE <<>>)
  \o (IF CountSuspect(d.Leaks, Len(d.Leaks)) > 0
      THEN <<<<"suspect leak locations identified",
               CountSuspect(d.Leaks, Len(d.Leaks))>>>>
      ELSE <<>>)

GetSummaryResult(d) ==
  IF d = NoData THEN NoDataError
  ELSE [Session |-> d.SessionName, TotalAllocations |-> d.TotalAllocations,
        TotalSize |-> d.TotalSize, LeakCount |-> d.LeakCount,
        LeakSize |-> d.LeakSize, LeakPercentage |-> leakPercentage(d),
        MemoryFragmentation |-> d.MemoryFragmentation,
        Findings |-> CriticalFindings(d)]

GetSummary ==
  /\ ret' = GetSummaryResult(data)
  /\ pc' = "GetSummary"
  /\ arg' = 0
  /\ UNCHANGED <<data, sortOutcome, files, reqs>>

-----------------------------------------------------------------------------
(* Top leakers: analyzer.go *)

LeakLess_asc(a, b) == a.LeakSize < b.LeakSize

\* the comparator of the sort of the copied leak list
LeakLess(a, b) == a.LeakSize > b.LeakSize

ClampCount_short(n, len) == IF n >= len THEN len - 1 ELSE n

\* if n > len(leaks) { n = len(leaks) }
ClampCount(n, len) == IF n > len THEN len ELSE n

\* the lines written for the leak at rank i
LeakerEntry(i, leak) ==
  [Rank |-> i, FunctionName |-> leak.FunctionName, LeakSize |-> leak.LeakSize,
   LeakCount |-> leak.LeakCount, LeakScore |-> leak.LeakScore,
   Suspect |-> leak.IsSuspect,
   Location |-> IF leak.FileName # "" THEN <<leak.FileName, leak.LineNumber>>
                ELSE <<>>,
   CallStack |-> IF leak.CallStack # "" THEN <<leak.CallStack>> ELSE <<>>]

\* for i := 0; i < n; i++ : no entry when n <= 0
LeakerEntries(leaks, n) ==
  [i \in 1..n |-> LeakerEntry(i, leaks[i])]

\* leaks := make([]Leak, len(ma.data.Leaks)); copy(leaks, ma.data.Leaks);
\* sort.Slice(leaks, ...): the arrangements of the copy
SortedLeakCopies(d, memo) ==
  SortOutcomes(memo, <<"leaks", d.Leaks>>, d.Leaks,
               [a \in Range(d.Leaks), b \in Range(d.Leaks) |-> LeakLess(a, b)])

LeaksAfterSortingCopy_inPlace(leaks, sortedCopy) == sortedCopy

\* ma.data.Leaks once the copy is sorted: the sort wrote to the copy only
LeaksAfterSortingCopy(leaks, sortedCopy) == leaks

\* the report written from the sorted copy
TopLeakersReport(leaks, n) ==
  [Header |-> ClampCount(n, Len(leaks)),
   Entries |-> LeakerEntries(leaks, ClampCount(n, Len(leaks)))]

\* the counts a caller may ask for: negative, zero, within and beyond the list
Counts == (0 - 2)..(MaxLeaks + 2)

\* one call GetTopLeakers(n)
GetTopLeakersCall(n) ==
  /\ IF data = NoData
     THEN ret' = NoDataError /\ UNCHANGED <<data, sortOutcome>>
     ELSE \E leaks \in SortedLeakCopies(data, sortOutcome) :
            /\ ret' = TopLeakersReport(leaks, n)
            /\ sortOutcome' = Remember(sortOutcome, <<"leaks", data.Leaks>>, leaks)
            /\ data' = [data EXCEPT !.Leaks = LeaksAfterSortingCopy(data.Leaks, leaks)]
  /\ pc' = "GetTopLeakers"
  /\ arg' = n
  /\ UNCHANGED <<files, reqs>>

GetTopLeakers == \E n \in Counts : GetTopLeakersCall(n)

-----------------------------------------------------------------------------
(* Loading: analyzer.go, NewMemoryAnalyzer *)

\* what a path may hold: nothing readable, text that is no JSON, JSON with a
\* field of the wrong type, or a JSON document (its fields: name -> value)
Unreadable == [kind |-> "unreadable"]
NotJSON == [kind |-> "syntax"]
Mistyped(fields) == [kind |-> "mistyped", fields |-> fields]
Document(fields) == [kind |-> "json", fields |-> fields]

\* var data MemProData: every field at its zero value
ZeroData ==
  [SessionName |-> "", TotalAllocations |-> 0, TotalSize |-> 0, LeakCount |-> 0,
   LeakSize |-> 0, MemoryFragmentation |-> 0, Functions |-> <<>>, Leaks |-> <<>>]

\* json.Unmarshal into the zero value: the fields the document has are set,
\* the others stay zero
Unmarshal(fields) ==
  [f \in DOMAIN ZeroData |-> IF f \in DOMAIN fields THEN fields[f] ELSE ZeroData[f]]

NoError == "nil"
ReadError == "failed to read JSON file"
ParseError == "failed to parse JSON"

NewMemoryAnalyzer_partial(content) ==
  IF content.kind = "unreadable" THEN [analyzer |-> NoData, err |-> ReadError]
  ELSE IF content.kind = "syntax" THEN [analyzer |-> NoData, err |-> ParseError]
  ELSE IF content.kind = "mistyped"
       THEN [analyzer |-> Unmarshal(content.fields), err |-> ParseError]
  ELSE [analyzer |-> Unmarshal(content.fields), err |-> NoError]

\* the data of the analyzer returned (NoData for nil) and the error
NewMemoryAnalyzer(content) ==
  IF content.kind = "unreadable" THEN [analyzer |-> NoData, err |-> ReadError]
  ELSE IF content.kind \in {"syntax", "mistyped"}
       THEN [analyzer |-> NoData, err |-> ParseError]
  ELSE [analyzer |-> Unmarshal(content.fields), err |-> NoError]

-----------------------------------------------------------------------------
(* Tool handlers: main.go *)

DefaultPath == "test_memory_analysis.json"
Paths == {"a.json", DefaultPath}

Tools ==
  {"analyze_leaks", "get_summary", "get_top_leakers", "analyze_fragmentation",
   "find_large_allocations", "get_all_issues"}

\* the json_path argument if it is a non-empty string, else MEMPRO_JSON_PATH
\* if it is set, else the default path
getJSONPath(args, env) ==
  IF "json_path" \in DOMAIN args /\ args["json_path"] # "" THEN args["json_path"]
  ELSE IF env # "" THEN env
  ELSE DefaultPath

\* count := 10, replaced by the count argument when there is one
CountOf(args) == IF "count" \in DOMAIN args THEN args["count"] ELSE 10

\* the arguments a request may come with
ArgumentSets ==
  {[json_path |-> ""], [json_path |-> "a.json"], [count |-> 1]}

\* json.MarshalIndent: a nil slice is written as null
Marshal(issues) == IF issues = <<>> THEN "null" ELSE <<"json", issues>>

ToolResultError(err) == [isError |-> TRUE, text |-> <<"Failed to analyze", err>>]
ToolResultText(text) == [isError |-> FALSE, text |-> text]

\* the text a handler returns once its analyzer calls are made
Respond(tool, sections) ==
  IF tool \in {"get_summary", "get_top_leakers"}
  THEN ToolResultText(sections[1][2])
  ELSE IF tool = "get_all_issues"
  THEN ToolResultText([Summary |-> sections[1][2],
                       Leaks |-> Marshal(sections[2][2]),
                       Fragmentation |-> Marshal(sections[3][2]),
                       LargeAllocs |-> Marshal(sections[4][2])])
  ELSE ToolResultText(Marshal(sections[1][2]))

Requests == 1..MaxRequests

\* a request: where its handler is, its locals (path, count, analyzer, err),
\* the values its analyzer calls returned, its result; and as history the
\* number of loads, the content each load read, the analyzer methods called
IdleRequest ==
  [pc |-> "idle", tool |-> "none", path |-> "", count |-> 0, analyzer |-> NoData,
   err |-> NoError, sections |-> <<>>, result |-> NoReturn,
   loads |-> 0, read |-> <<>>, ran |-> <<>>]

ServerIdle ==
  /\ files = [env |-> "", disk |-> [p \in Paths |-> Unreadable]]
  /\ reqs = [r \in Requests |-> IdleRequest]

\* what the handler of a request to tool with args has after its first lines:
\* jsonPath := getJSONPath(args), count, and
\* analyzer, err := NewMemoryAnalyzer(jsonPath); if err != nil { return error }
Loaded(rq, tool, args, fs) ==
  LET path == getJSONPath(args, fs.env)
      content == fs.disk[path]
      made == NewMemoryAnalyzer(content)
  IN  [rq EXCEPT
        !.tool = tool,
        !.path = path,
        !.count = IF tool = "get_top_leakers" THEN CountOf(args) ELSE 0,
        !.analyzer = made.analyzer,
        !.err = made.err,
        !.loads = @ + 1,
        !.read = Append(@, content),
        !.pc = IF made.err # NoError THEN "done" ELSE "analyze",
        !.result = IF made.err # NoError THEN ToolResultError(made.err) ELSE @]

\* a request arrives and its handler runs up to the load
Load(r) ==
  /\ reqs[r].pc = "idle"
  /\ \E tool \in Tools, args \in ArgumentSets :
       reqs' = [reqs EXCEPT ![r] = Loaded(@, tool, args, files)]
  /\ UNCHANGED <<files, sortOutcome>>

AnalyzerOf_reloaded(rq, fs) == NewMemoryAnalyzer(fs.disk[rq.path]).analyzer

\* the handler's local variable analyzer
AnalyzerOf(rq, fs) == rq.analyzer

\* the request after one analyzer method has returned value: it is kept as
\* section, and the handler goes on at next
Returned(rq, section, method, value, next) ==
  [rq EXCEPT !.sections = Append(@, <<section, value>>),
             !.ran = Append(@, method),
             !.pc = next,
             !.result = IF next = "done"
                        THEN Respond(rq.tool, Append(rq.sections, <<section, value>>))
                        ELSE @]

RunLeaks(r, next) ==
  LET d == AnalyzerOf(reqs[r], files) IN
  \E issues \in AnalyzeLeaksResults(d, sortOutcome) :
    /\ sortOutcome' = Remember(sortOutcome, <<"issues", IssuesToSort(d)>>, issues)
    /\ reqs' = [reqs EXCEPT ![r] = Returned(@, "Leaks", "AnalyzeLeaks", issues, next)]

RunTopLeakers(r, next) ==
  LET d == AnalyzerOf(reqs[r], files) IN
  IF d = NoData
  THEN /\ reqs' = [reqs EXCEPT
                     ![r] = Returned(@, "TopLeakers", "GetTopLeakers", NoDataError, next)]
       /\ UNCHANGED sortOutcome
  ELSE \E leaks \in SortedLeakCopies(d, sortOutcome) :
         /\ sortOutcome' = Remember(sortOutcome, <<"leaks", d.Leaks>>, leaks)
         /\ reqs' = [reqs EXCEPT
              ![r] = Returned([@ EXCEPT !.analyzer =
                                 [d EXCEPT !.Leaks = LeaksAfterSortingCopy(d.Leaks, leaks)]],
                              "TopLeakers", "GetTopLeakers",
                              TopLeakersReport(leaks, reqs[r].count), next)]

RunSummary(r, next) ==
  /\ reqs' = [reqs EXCEPT ![r] = Returned(@, "Summary", "GetSummary",
                                 GetSummaryResult(AnalyzerOf(reqs[r], files)), next)]
  /\ UNCHANGED sortOutcome

RunFragmentation(r, next) ==
  /\ reqs' = [reqs EXCEPT ![r] = Returned(@, "Fragmentation", "AnalyzeFragmentation",
                                 AnalyzeFragmentationResult(AnalyzerOf(reqs[r], files)), next)]
  /\ UNCHANGED sortOutcome

RunLargeAllocations(r, next) ==
  /\ reqs' = [reqs EXCEPT ![r] = Returned(@, "LargeAllocs", "AnalyzeLargeAllocations",
                                 AnalyzeLargeAllocationsResult(AnalyzerOf(reqs[r], files)), next)]
  /\ UNCHANGED sortOutcome

At(r, tool, pos) == reqs[r].tool = tool /\ reqs[r].pc = pos

handleAnalyzeLeaks(r) ==
  /\ At(r, "analyze_leaks", "analyze")
  /\ RunLeaks(r, "done")
  /\ UNCHANGED files

handleGetSummary(r) ==
  /\ At(r, "get_summary", "analyze")
  /\ RunSummary(r, "done")
  /\ UNCHANGED files

handleGetTopLeakers(r) ==
  /\ At(r, "get_top_leakers", "analyze")
  /\ RunTopLeakers(r, "done")
  /\ UNCHANGED files

handleAnalyzeFragmentation(r) ==
  /\ At(r, "analyze_fragmentation", "analyze")
  /\ RunFragmentation(r, "done")
  /\ UNCHANGED files

handleFindLargeAllocations(r) ==
  /\ At(r, "find_large_allocations", "analyze")
  /\ RunLargeAllocations(r, "done")
  /\ UNCHANGED files

\* the four fields of the result of get_all_issues, in the order written
handleGetAllIssuesSummary(r) ==
  /\ At(r, "get_all_issues", "analyze")
  /\ RunSummary(r, "leaks")
  /\ UNCHANGED files

handleGetAllIssuesLeaks(r) ==
  /\ At(r, "get_all_issues", "leaks")
  /\ RunLeaks(r, "fragmentation")
  /\ UNCHANGED files

handleGetAllIssuesFragmentation(r) ==
  /\ At(r, "get_all_issues", "fragmentation")
  /\ RunFragmentation(r, "largeAllocs")
  /\ UNCHANGED files

handleGetAllIssuesLargeAllocs(r) ==
  /\ At(r, "get_all_issues", "largeAllocs")
  /\ RunLargeAllocations(r, "done")
  /\ UNCHANGED files

-----------------------------------------------------------------------------
(* History of one analyzer *)

\* nothing observed yet of the analyzer that holds snapshot d
AsLoaded(d) ==
  [snapshot |-> d, op |-> "none", arg |-> 0, first |-> NoReturn, calls |-> 0]

\* the step's call is either picked as the call to compare later ones with,
\* or compared with the call picked before, or passed over
Observe ==
  \/ /\ observed.op = "none"
     /\ observed' = [observed EXCEPT !.op = pc', !.arg = arg', !.first = ret',
                                     !.calls = 1]
  \/ /\ observed.op = pc' /\ observed.arg = arg'
     /\ observed' = [observed EXCEPT !.calls = IF @ < 2 THEN @ + 1 ELSE @]
  \/ /\ ~(observed.op = pc' /\ observed.arg = arg')
     /\ observed' = observed

-----------------------------------------------------------------------------
(* Specification of the leak analysis: one analyzer over a loaded snapshot *)

LeakLists == SeqsUpTo(LeakRecords, 1) \cup SeqsUpTo(LeakSample, MaxLeaks)

InitLeaks ==
  /\ \E leaks \in LeakLists : data = MkData(leaks, <<>>, 0, 0, 0, 0)
  /\ pc = "loaded"
  /\ arg = 0
  /\ ret = NoReturn
  /\ sortOutcome = NoOutcomes
  /\ observed = AsLoaded(data)
  /\ ServerIdle

NextLeaks == AnalyzeLeaks /\ UNCHANGED observed

SpecLeaks == InitLeaks /\ [][NextLeaks]_vars

(* Specification of the fragmentation analysis *)

FragmentationValues ==
  {0 - Pct(1), 0, Pct(50), Pct(50) + 1, Pct(80), Pct(80) + 1, Pct(100), Pct(120)}

InitFragmentation ==
  /\ \E frag \in FragmentationValues, total \in {0, 4096, 1000000},
        allocs \in 0..(MaxFunctions + 2) :
       data = MkData(<<>>, <<>>, total, 0, frag, allocs)
  /\ pc = "loaded"
  /\ arg = 0
  /\ ret = NoReturn
  /\ sortOutcome = NoOutcomes
  /\ observed = AsLoaded(data)
  /\ ServerIdle

NextFragmentation == AnalyzeFragmentation /\ UNCHANGED observed

SpecFragmentation == InitFragmentation /\ [][NextFragmentation]_vars

(* Specification of the large-allocation analysis *)

InitLargeAllocations ==
  /\ \E functions \in SeqsUpTo(FunctionRecords, MaxFunctions) :
       data = MkData(<<>>, functions, 0, 0, 0, 0)
  /\ pc = "loaded"
  /\ arg = 0
  /\ ret = NoReturn
  /\ sortOutcome = NoOutcomes
  /\ observed = AsLoaded(data)
  /\ ServerIdle

NextLargeAllocations == AnalyzeLargeAllocations /\ UNCHANGED observed

SpecLargeAllocations == InitLargeAllocations /\ [][NextLargeAllocations]_vars

(* Specification of the summary *)

SuspectSample ==
  {MkLeak(s, 10000, 1, 1, b) :
     s \in {x \in Sites : x.FunctionName = NameMain}, b \in BOOLEAN}

InitSummary ==
  /\ \E leaks \in SeqsUpTo(SuspectSample, MaxLeaks),
        total \in {0 - 1000, 0, 1000},
        leaked \in {0 - 600, 0, 500, 501, 600},
        frag \in {0, Pct(80), Pct(80) + 1} :
       data = MkData(leaks, <<>>, total, leaked, frag, 0)
  /\ pc = "loaded"
  /\ arg = 0
  /\ ret = NoReturn
  /\ sortOutcome = NoOutcomes
  /\ observed = AsLoaded(data)
  /\ ServerIdle

NextSummary == GetSummary /\ UNCHANGED observed

SpecSummary == InitSummary /\ [][NextSummary]_vars

(* Specification of the top-leakers report *)

\* three sizes at two sites; the records of the site without a file name have
\* a leak count and are suspect, so equal sizes can be told apart and a record
\* of zero size and zero count occurs
TopSample ==
  {MkLeak(s, z, IF s.FileName = "" THEN 101 ELSE 0, 1, s.FileName = "") :
     s \in Sites, z \in {0, 10000, 100001}}

InitTopLeakers ==
  /\ \E leaks \in SeqsUpTo(TopSample, MaxLeaks) :
       data = MkData(leaks, <<>>, 0, 0, 0, 0)
  /\ pc = "loaded"
  /\ arg = 0
  /\ ret = NoReturn
  /\ sortOutcome = NoOutcomes
  /\ observed = AsLoaded(data)
  /\ ServerIdle

NextTopLeakers == GetTopLeakers /\ UNCHANGED observed

SpecTopLeakers == InitTopLeakers /\ [][NextTopLeakers]_vars

(* Specification of the suggestions: leak records under composed names *)

\* the pieces function names are put together from: the four markers, a
\* prefix that makes "main" the end of a longer word, "main" in another case,
\* and the start shared by the two library markers
NamePieces ==
  {MarkerUnknown, MarkerAllocate, MarkerVector, MarkerMain, <<"r","e">>,
   <<"M","a","i","n">>, <<"s","t","d",":",":">>}

RECURSIVE Concat(_)
Concat(parts) == IF parts = <<>> THEN <<>> ELSE Head(parts) \o Concat(Tail(parts))

FunctionNames == {Concat(parts) : parts \in SeqsUpTo(NamePieces, MaxParts)}

NamedLeaks ==
  {MkLeak([FunctionName |-> nm, FileName |-> "", LineNumber |-> 0,
           CallStack |-> ""], 5000, 1, 1, b) :
     nm \in FunctionNames, b \in BOOLEAN}

InitSuggestions ==
  /\ \E leaks \in SeqsUpTo(NamedLeaks, 1) : data = MkData(leaks, <<>>, 0, 0, 0, 0)
  /\ pc = "loaded"
  /\ arg = 0
  /\ ret = NoReturn
  /\ sortOutcome = NoOutcomes
  /\ observed = AsLoaded(data)
  /\ ServerIdle

NextSuggestions == AnalyzeLeaks /\ UNCHANGED observed

SpecSuggestions == InitSuggestions /\ [][NextSuggestions]_vars

(* One analyzer answering any of the five queries *)

\* two records of different size, and so lists that are not in sorted order
AnalyzerSample ==
  {MkLeak(s, 10000, 1, 1, FALSE) : s \in Sites}
  \cup {MkLeak(s, 100001, 1, 1, TRUE) : s \in {x \in Sites : x.FunctionName = NameMain}}

\* an oversized function after one that is not
AnalyzerFunctions ==
  <<MkFunction(NamePlain, 1, 10, 10, 10),
    MkFunction(NameMain, 3, 30003, 10001, 100001)>>

Init ==
  /\ \E leaks \in SeqsUpTo(AnalyzerSample, MaxLeaks) :
       data = MkData(leaks, AnalyzerFunctions, 1000, 600, Pct(80) + 1, 3)
  /\ pc = "loaded"
  /\ arg = 0
  /\ ret = NoReturn
  /\ sortOutcome = NoOutcomes
  /\ observed = AsLoaded(data)
  /\ ServerIdle

\* a count below the length of some lists, and the handler's default
AnalyzerCounts == {2, 10}

Calls ==
  \/ AnalyzeLeaks
  \/ AnalyzeFragmentation
  \/ AnalyzeLargeAllocations
  \/ GetSummary
  \/ \E n \in AnalyzerCounts : GetTopLeakersCall(n)

Next == Calls /\ Observe

Spec == Init /\ [][Next]_vars


-----------------------------------------------------------------------------
(* The server: requests handled concurrently, files rewritten meanwhile *)

\* a full report whose leaks are not in sorted order, and a sparse one
ReportA ==
  MkData(<<MkLeak(CHOOSE x \in Sites : x.FunctionName = NameMain, 10000, 1, 1, FALSE),
           MkLeak(CHOOSE x \in Sites : x.FunctionName = NameUnknown, 100001, 1, 1, TRUE)>>,
         AnalyzerFunctions, 1000, 600, Pct(80) + 1, 3)

ReportB ==
  [TotalSize |-> 1000, LeakSize |-> 100, MemoryFragmentation |-> Pct(50) + 1,
   Leaks |-> <<MkLeak(CHOOSE x \in Sites : x.FunctionName = NameMain, 50001, 1, 1, FALSE)>>]

Contents ==
  {Unreadable, NotJSON, Mistyped(ReportB), Document(ReportA), Document(ReportB)}

ServerContents == {Unreadable, Document(ReportA), Document(ReportB)}

InitFiles(envs, contents) ==
  /\ data = NoData
  /\ pc = "loaded"
  /\ arg = 0
  /\ ret = NoReturn
  /\ sortOutcome = NoOutcomes
  /\ observed = AsLoaded(data)
  /\ \E env \in envs, c \in contents :
       files = [env |-> env,
                disk |-> [p \in Paths |-> IF p = DefaultPath THEN Unreadable ELSE c]]
  /\ reqs = [r \in Requests |-> IdleRequest]

\* another process rewrites, removes or truncates the report
WriteFile(contents) ==
  /\ \E c \in contents : files' = [files EXCEPT !.disk["a.json"] = c]
  /\ UNCHANGED <<reqs, sortOutcome>>

Handle(r) ==
  \/ Load(r)
  \/ handleAnalyzeLeaks(r)
  \/ handleGetSummary(r)
  \/ handleGetTopLeakers(r)
  \/ handleAnalyzeFragmentation(r)
  \/ handleFindLargeAllocations(r)
  \/ handleGetAllIssuesSummary(r)
  \/ handleGetAllIssuesLeaks(r)
  \/ handleGetAllIssuesFragmentation(r)
  \/ handleGetAllIssuesLargeAllocs(r)

\* one request at a time, over every kind of content and both ways to the path
InitLoad == InitFiles({"", "a.json"}, Contents)

NextLoad ==
  /\ \/ Handle(1)
     \/ WriteFile(Contents)
  /\ UNCHANGED <<data, pc, arg, ret, observed>>

SpecLoad == InitLoad /\ [][NextLoad]_vars

\* the requests in any interleaving, MEMPRO_JSON_PATH naming the report
InitServer == InitFiles({"a.json"}, ServerContents)

NextServer ==
  /\ \/ \E r \in Requests : Handle(r)
     \/ WriteFile(ServerContents)
  /\ UNCHANGED <<data, pc, arg, ret, observed>>

SpecServer == InitServer /\ [][NextServer]_vars

-----------------------------------------------------------------------------
(* Claims about the leak analysis *)

Severities == {"Critical", "High", "Medium", "Low"}

\* the precedence table of the leak severities, first matching rule
SeverityRule(leak) ==
  CASE leak.IsSuspect /\ leak.LeakSize > 100000 -> "Critical"
    [] ~(leak.IsSuspect /\ leak.LeakSize > 100000)
       /\ (leak.IsSuspect \/ leak.LeakSize > 50000) -> "High"
    [] ~leak.IsSuspect /\ leak.LeakSize <= 50000
       /\ (leak.LeakSize > 10000 \/ leak.LeakCount > 100) -> "Medium"
    [] OTHER -> "Low"

SeverityRank(sev) ==
  CASE sev = "Critical" -> 0 [] sev = "High" -> 1 [] sev = "Medium" -> 2
    [] sev = "Low" -> 3

\* what an Issue carries over from its record
Carried(issue) ==
  <<issue.FunctionName, issue.FileName, issue.LineNumber, issue.Size,
    issue.Count, issue.Score>>

CarriedOfLeak(leak) ==
  <<leak.FunctionName, leak.FileName, leak.LineNumber, leak.LeakSize,
    leak.LeakCount, leak.LeakScore>>

IsEvidence(leak) == leak.LeakSize # 0 \/ leak.LeakCount # 0

\* the records that are evidence, in snapshot order
EvidenceLeaks ==
  LET leaks == data.Leaks
      idx == SelectIdx([i \in DOMAIN leaks |-> IsEvidence(leaks[i])], Len(leaks), 1)
  IN  [k \in DOMAIN idx |-> leaks[idx[k]]]

LeaksReturned == pc = "AnalyzeLeaks"

\* C1: every Issue returned by AnalyzeLeaks has a severity among Critical,
\* High, Medium, Low, and the issues are, record for record, the evidence
\* records each with the severity the precedence table gives it.
T_C1_Severity ==
  LeaksReturned =>
    /\ \A k \in DOMAIN ret : ret[k].Severity \in Severities
    /\ SeqToBag([k \in DOMAIN ret |-> <<Carried(ret[k]), ret[k].Severity>>])
       = SeqToBag([k \in DOMAIN EvidenceLeaks |->
                     <<CarriedOfLeak(EvidenceLeaks[k]), SeverityRule(EvidenceLeaks[k])>>])

W_C1_Severity ==
  /\ LeaksReturned
  /\ {ret[k].Severity : k \in DOMAIN ret} = {"Critical", "Medium", "Low"}

W_C1_Boundary ==
  /\ LeaksReturned
  /\ \E k \in DOMAIN ret : ret[k].Size = 100000 /\ ret[k].Severity = "High"

\* C2: AnalyzeLeaks returns no Issue for a record with LeakSize = 0 and
\* LeakCount = 0 and exactly one Issue, carrying the record's function name,
\* file, line, size, count and score, for every other record; the output is as
\* long as the number of records with LeakSize # 0 or LeakCount # 0.
T_C2_SkipRule ==
  LeaksReturned =>
    /\ Len(ret) = Cardinality({i \in DOMAIN data.Leaks :
                                 data.Leaks[i].LeakSize # 0 \/ data.Leaks[i].LeakCount # 0})
    /\ \A k \in DOMAIN ret : ret[k].Size # 0 \/ ret[k].Count # 0
    /\ SeqToBag([k \in DOMAIN ret |-> Carried(ret[k])])
       = SeqToBag([k \in DOMAIN EvidenceLeaks |-> CarriedOfLeak(EvidenceLeaks[k])])

W_C2_SkipRule ==
  /\ LeaksReturned
  /\ Len(ret) = 2
  /\ Len(data.Leaks) = 3
  /\ \E i \in DOMAIN data.Leaks : data.Leaks[i].LeakSize = 0 /\ data.Leaks[i].LeakCount # 0

\* C3: the list returned by AnalyzeLeaks is sorted: each adjacent pair is in
\* ascending severity rank (Critical 0, High 1, Medium 2, Low 3) and, at equal
\* rank, in descending Size.
T_C3_Sorted ==
  LeaksReturned =>
    \A i \in 1..(Len(ret) - 1) :
      /\ SeverityRank(ret[i].Severity) <= SeverityRank(ret[i + 1].Severity)
      /\ SeverityRank(ret[i].Severity) = SeverityRank(ret[i + 1].Severity)
           => ret[i].Size >= ret[i + 1].Size

\* a three-issue result that the sort had to rearrange: the records came in
\* another order, two severities occur, and one severity holds two sizes
W_C3_Sorted ==
  /\ LeaksReturned
  /\ Len(ret) = 3
  /\ ret[1].Severity = ret[2].Severity /\ ret[1].Size > ret[2].Size
  /\ ret[2].Severity # ret[3].Severity
  /\ CarriedOfLeak(data.Leaks[1]) = Carried(ret[3])
  /\ CarriedOfLeak(data.Leaks[2]) = Carried(ret[2])

Projection(issue) == <<issue.Severity, Carried(issue)>>

KeyOf(p) == <<SeverityRank(p[1]), p[2][4]>>

\* p goes strictly before q in the presentation order
KeyBefore(p, q) ==
  \/ KeyOf(p)[1] < KeyOf(q)[1]
  \/ KeyOf(p)[1] = KeyOf(q)[1] /\ KeyOf(p)[2] > KeyOf(q)[2]

RECURSIVE StableInsert(_, _)
\* p placed into the ordered list s behind every element it does not precede
StableInsert(p, s) ==
  IF s = <<>> THEN <<p>>
  ELSE IF KeyBefore(p, Head(s)) THEN <<p>> \o s
       ELSE <<Head(s)>> \o StableInsert(p, Tail(s))

RECURSIVE StableOrder(_, _)
StableOrder(s, n) ==
  IF n = 0 THEN <<>> ELSE StableInsert(s[n], StableOrder(s, n - 1))

\* the evidence records as issues, ordered as a stable sort orders them
StableReference ==
  StableOrder([k \in DOMAIN EvidenceLeaks |->
                 <<SeverityRule(EvidenceLeaks[k]), CarriedOfLeak(EvidenceLeaks[k])>>],
              Len(EvidenceLeaks))

\* C4 as stated: the order is stable; Issues of equal severity rank and equal
\* Size keep the relative order of their records in the snapshot's leak list.
CX_C4_Stable ==
  LeaksReturned => [k \in DOMAIN ret |-> Projection(ret[k])] = StableReference

\* C4 as amended: the output carries the evidence records in the order of
\* their (severity rank, Size) keys, position by position the keys of a stable
\* sort; Issues of equal rank and equal Size may come in either order.
T_C4_OrderUpToTies ==
  LeaksReturned =>
    /\ Len(ret) = Len(StableReference)
    /\ \A k \in DOMAIN ret : KeyOf(Projection(ret[k])) = KeyOf(StableReference[k])
    /\ SeqToBag([k \in DOMAIN ret |-> Projection(ret[k])]) = SeqToBag(StableReference)

\* two Issues of equal rank and Size returned against their snapshot order
W_C4_TieReversed ==
  /\ LeaksReturned
  /\ Len(ret) = 3
  /\ \E i \in 1..2 :
       /\ KeyOf(Projection(ret[i])) = KeyOf(Projection(ret[i + 1]))
       /\ Projection(ret[i]) = StableReference[i + 1]
       /\ Projection(ret[i + 1]) = StableReference[i]
       /\ StableReference[i] # StableReference[i + 1]

-----------------------------------------------------------------------------
(* Claims about the fragmentation analysis *)

\* C5: AnalyzeFragmentation returns exactly one High issue when
\* MemoryFragmentation > 80.0, exactly one Medium issue when it is above 50.0
\* and at most 80.0, and no issue when it is at most 50.0; a returned Issue
\* carries the snapshot's TotalSize and TotalAllocations as size and count.
T_C5_Fragmentation ==
  pc = "AnalyzeFragmentation" =>
    LET f == data.MemoryFragmentation IN
    /\ f > 8000 => Len(ret) = 1 /\ ret[1].Severity = "High"
    /\ (f > 5000 /\ f <= 8000) => Len(ret) = 1 /\ ret[1].Severity = "Medium"
    /\ f <= 5000 => ret = <<>>
    /\ \A k \in DOMAIN ret :
         ret[k].Size = data.TotalSize /\ ret[k].Count = data.TotalAllocations

\* fragmentation of exactly 80.0 answered with a Medium issue
W_C5_Exactly80 ==
  /\ pc = "AnalyzeFragmentation"
  /\ data.MemoryFragmentation = 8000
  /\ data.TotalSize = 4096 /\ data.TotalAllocations = 2
  /\ Len(ret) = 1 /\ ret[1].Severity = "Medium"

-----------------------------------------------------------------------------
(* Claims about the large-allocation analysis *)

IsOversized(fn) == fn.AverageSize > 10000 \/ fn.MaxSize > 50000

\* the functions that are oversized, in function-list order
OversizedFunctions ==
  LET fns == data.Functions
      idx == SelectIdx([i \in DOMAIN fns |-> IsOversized(fns[i])], Len(fns), 1)
  IN  [k \in DOMAIN idx |-> fns[idx[k]]]

\* C6: AnalyzeLargeAllocations returns, in function-list order, exactly one
\* Issue for each FunctionStat with AverageSize > 10000 or MaxSize > 50000 and
\* none for any other; the severity is High if MaxSize > 100000, else Medium.
T_C6_LargeAllocations ==
  pc = "AnalyzeLargeAllocations" =>
    /\ Len(ret) = Len(OversizedFunctions)
    /\ \A k \in DOMAIN ret :
         LET fn == OversizedFunctions[k] IN
         /\ ret[k].FunctionName = fn.FunctionName
         /\ ret[k].Size = fn.TotalSize
         /\ ret[k].Score = fn.MaxSize
         /\ ret[k].Severity = IF fn.MaxSize > 100000 THEN "High" ELSE "Medium"

\* two issues returned in list order although that order is neither by
\* severity nor by size, next to a function that triggers on MaxSize alone
W_C6_InputOrder ==
  /\ pc = "AnalyzeLargeAllocations"
  /\ Len(ret) = 2
  /\ ret[1].Severity = "Medium" /\ ret[2].Severity = "High"
  /\ ret[1].Size < ret[2].Size
  /\ data.Functions[1].AverageSize = 10000 /\ data.Functions[1].MaxSize = 50001

-----------------------------------------------------------------------------
(* Claims about the top-leakers report *)

TopReturned == pc = "GetTopLeakers"

\* C7 as stated: for N <= 0 the report has the header "Top 0" and no entries.
CX_C7_ZeroHeader ==
  (TopReturned /\ arg <= 0) => (ret.Header = 0 /\ ret.Entries = <<>>)

\* C8: with n above the number of leak records the report has exactly
\* len(leaks) entries under a header count of len(leaks); no report holds
\* more entries than there are records.
T_C8_Clamp ==
  TopReturned =>
    /\ Len(ret.Entries) <= Len(data.Leaks)
    /\ arg > Len(data.Leaks) =>
         ret.Header = Len(data.Leaks) /\ Len(ret.Entries) = Len(data.Leaks)

W_C8_Clamp ==
  /\ TopReturned
  /\ Len(data.Leaks) = 2
  /\ arg = 4
  /\ ret.Header = 2 /\ Len(ret.Entries) = 2

EntryOfLeak(e, leak) ==
  /\ e.FunctionName = leak.FunctionName
  /\ e.LeakSize = leak.LeakSize
  /\ e.LeakCount = leak.LeakCount
  /\ e.LeakScore = leak.LeakScore
  /\ e.Suspect = leak.IsSuspect

\* C9: for 0 < n the entries are the min(n, len(leaks)) records of largest
\* LeakSize, ranked from 1 in descending LeakSize: every entry's LeakSize is
\* at least the next entry's and at least that of every record not reported.
\* Records of zero size and zero count are ranked like any other.
T_C9_Largest ==
  (TopReturned /\ arg > 0) =>
    LET leaks == data.Leaks
        n == Len(leaks)
        m == IF arg < n THEN arg ELSE n
        e == ret.Entries
    IN  /\ Len(e) = m
        /\ \A i \in 1..m : e[i].Rank = i
        /\ \A i \in 1..(m - 1) : e[i].LeakSize >= e[i + 1].LeakSize
        /\ \E p \in {q \in [1..n -> 1..n] : \A i, j \in 1..n : i # j => q[i] # q[j]} :
             /\ \A i \in 1..m : EntryOfLeak(e[i], leaks[p[i]])
             /\ \A i \in 1..m : \A j \in (m + 1)..n :
                  leaks[p[i]].LeakSize >= leaks[p[j]].LeakSize

\* the two largest of three records reported, the largest taken from the end
\* of the list, a record of zero size and count ranked second, a smaller
\* record left out
W_C9_Largest ==
  /\ TopReturned
  /\ arg = 2
  /\ Len(data.Leaks) = 3
  /\ data.Leaks[3].LeakSize = 100001
  /\ data.Leaks[1].LeakSize = 0 /\ data.Leaks[1].LeakCount = 0
  /\ data.Leaks[2].LeakSize = 0 /\ data.Leaks[2].LeakCount = 101
  /\ ret.Entries[1].LeakSize = 100001
  /\ ret.Entries[2].LeakSize = 0 /\ ret.Entries[2].LeakCount = 0

-----------------------------------------------------------------------------
(* Claims about the summary *)

SummaryReturned == pc = "GetSummary"

\* the fractions a and b, of positive denominators, are the same number
SameFraction(a, b) == a[1] * b[2] = b[1] * a[2]

SuspectCount == Cardinality({i \in DOMAIN data.Leaks : data.Leaks[i].IsSuspect})

\* the finding lines that the leak percentage f calls for
FindingsFor(f) ==
  (IF f[1] > 50 * f[2]
   THEN <<<<"CRITICAL: Over 50% of allocated memory is leaked!">>>> ELSE <<>>)
  \o (IF data.MemoryFragmentation > 8000
      THEN <<<<"HIGH: Severe memory fragmentation detected">>>> ELSE <<>>)
  \o (IF SuspectCount > 0
      THEN <<<<"suspect leak locations identified", SuspectCount>>>> ELSE <<>>)

\* LeakSize / TotalSize * 100 for TotalSize # 0, over a positive denominator
Quotient ==
  IF data.TotalSize > 0 THEN <<data.LeakSize * 100, data.TotalSize>>
  ELSE <<(0 - data.LeakSize) * 100, 0 - data.TotalSize>>

\* C10 as stated: the leak percentage is LeakSize / TotalSize * 100, and 0
\* when TotalSize is 0; the CRITICAL line is there iff it exceeds 50, the HIGH
\* line iff MemoryFragmentation > 80, the suspect line iff some leak record is
\* suspect, stating how many are.
CX_C10_Percentage ==
  SummaryReturned =>
    LET f == IF data.TotalSize = 0 THEN <<0, 1>> ELSE Quotient IN
    /\ SameFraction(ret.LeakPercentage, f)
    /\ ret.Findings = FindingsFor(f)

\* C10 as amended: the leak percentage is LeakSize / TotalSize * 100 when
\* TotalSize > 0 and 0 when TotalSize <= 0; the finding lines as stated.
T_C10_Percentage ==
  SummaryReturned =>
    LET f == IF data.TotalSize <= 0 THEN <<0, 1>> ELSE Quotient IN
    /\ SameFraction(ret.LeakPercentage, f)
    /\ ret.Findings = FindingsFor(f)

\* 60% leaked, fragmentation above 80, two suspect records: all three lines
W_C10_AllFindings ==
  /\ SummaryReturned
  /\ data.TotalSize = 1000 /\ data.LeakSize = 600
  /\ Len(ret.Findings) = 3
  /\ ret.Findings[3][2] = 2

\* a negative TotalSize reported as 0% with no CRITICAL line
W_C10_NegativeTotal ==
  /\ SummaryReturned
  /\ data.TotalSize < 0 /\ data.LeakSize < 0
  /\ ret.LeakPercentage[1] = 0
  /\ ret.Findings = <<>>

-----------------------------------------------------------------------------
(* Claims about the suggestions *)

HasUnknownMarker(nm) == Contains(nm, MarkerUnknown)
HasLibraryMarker(nm) == Contains(nm, MarkerAllocate) \/ Contains(nm, MarkerVector)
HasMainMarker(nm) == Contains(nm, MarkerMain)

\* the description is the one that ends in the note on missing debug symbols
MentionsDebugSymbols(description) ==
  /\ description[1] = "Unknown function leaked"
  /\ Len(description) = 4
  /\ description[4] = "missing debug symbols"

\* C14: the suggestion of a leak Issue follows the first matching rule on the
\* function name: the unknown-symbol marker gives the enable-debug-symbols
\* suggestion; else std::_Allocate or std::vector gives the STL-container
\* suggestion; else "main" gives the main-function suggestion; else the
\* smart-pointer suggestion. The description mentions missing debug symbols
\* exactly when the suggestion is the enable-debug-symbols one.
T_C14_Suggestion ==
  LeaksReturned =>
    \A k \in DOMAIN ret :
      LET nm == ret[k].FunctionName
          sg == ret[k].Suggestion
      IN  /\ HasUnknownMarker(nm) => sg = "Enable debug symbols"
          /\ (~HasUnknownMarker(nm) /\ HasLibraryMarker(nm)) => sg = "STL container leak"
          /\ (~HasUnknownMarker(nm) /\ ~HasLibraryMarker(nm) /\ HasMainMarker(nm))
               => sg = "Leak from main"
          /\ (~HasUnknownMarker(nm) /\ ~HasLibraryMarker(nm) /\ ~HasMainMarker(nm))
               => sg = "Use smart pointers"
          /\ MentionsDebugSymbols(ret[k].Description) <=> sg = "Enable debug symbols"

\* a name with both "main" and std::vector in it gets the STL suggestion only
W_C14_EarliestRule ==
  /\ LeaksReturned
  /\ Len(ret) = 1
  /\ HasMainMarker(ret[1].FunctionName)
  /\ Contains(ret[1].FunctionName, MarkerVector)
  /\ ~HasUnknownMarker(ret[1].FunctionName)
  /\ ret[1].Suggestion = "STL container leak"
  /\ ret[1].Severity = "Low"

-----------------------------------------------------------------------------
(* C12: the queries leave the loaded snapshot as it was *)

\* the call that is compared with later calls of the same method and argument
WatchedCall == observed.op # "none"

\* the state is right after a call of the watched method with its argument
WatchedCallAgain == WatchedCall /\ pc = observed.op /\ arg = observed.arg

\* C12: after any sequence of AnalyzeLeaks, AnalyzeFragmentation,
\* AnalyzeLargeAllocations, GetSummary and GetTopLeakers calls on one analyzer
\* its data equal the data right after the load, every field and the order of
\* Leaks and Functions included, and a call that repeats an earlier call
\* returns what the earlier call returned.
T_C12_SnapshotUnchanged ==
  /\ data = observed.snapshot
  /\ WatchedCallAgain => ret = observed.first

\* GetTopLeakers has been repeated on a leak list that is not in sorted order,
\* after AnalyzeLeaks has sorted its issues
W_C12_RepeatedAfterSort ==
  /\ WatchedCallAgain
  /\ observed.op = "GetTopLeakers"
  /\ observed.calls = 2
  /\ <<"leaks", data.Leaks>> \in DOMAIN sortOutcome
  /\ sortOutcome[<<"leaks", data.Leaks>>] # data.Leaks
  /\ <<"issues", IssuesToSort(data)>> \in DOMAIN sortOutcome
  /\ Len(IssuesToSort(data)) >= 2

-----------------------------------------------------------------------------
(* C11: a load gives a snapshot or a failure *)

\* the requests whose handler has called NewMemoryAnalyzer
Started == {r \in Requests : reqs[r].pc # "idle"}

\* what the request's load read
ContentRead(rq) == rq.read[1]

\* the snapshot holds every field of MemProData, with the document's values
CompleteSnapshot(d, fields) ==
  /\ DOMAIN d = DOMAIN ZeroData
  /\ \A f \in DOMAIN fields \cap DOMAIN ZeroData : d[f] = fields[f]

\* the request ended on its load: an error result, no analyzer, no analysis
FailedOnLoad(rq, err) ==
  /\ rq.err = err
  /\ rq.analyzer = NoData
  /\ rq.pc = "done"
  /\ rq.result = [isError |-> TRUE, text |-> <<"Failed to analyze", err>>]
  /\ rq.ran = <<>>
  /\ rq.sections = <<>>

\* C11: a load yields either a complete snapshot or a failure, never both: an
\* unreadable input gives the read error, unparseable content the parse
\* error, and in both cases the request has no analyzer (no partial one
\* either), runs no analysis method, and has loaded once only; a JSON
\* document gives an analyzer with every field and no error.
T_C11_SnapshotOrFailure ==
  \A r \in Started :
    LET rq == reqs[r]
        content == ContentRead(rq)
    IN  /\ rq.loads = 1
        /\ Len(rq.read) = 1
        /\ (rq.err = NoError) # (rq.analyzer = NoData)
        /\ content.kind = "unreadable" => FailedOnLoad(rq, ReadError)
        /\ content.kind \in {"syntax", "mistyped"} => FailedOnLoad(rq, ParseError)
        /\ content.kind = "json" =>
             rq.err = NoError /\ CompleteSnapshot(rq.analyzer, content.fields)

\* a request has failed on JSON with a field of the wrong type, and the file
\* has become a good report since: the request stays failed
W_C11_ParseFailureStays ==
  \E r \in Started :
    /\ ContentRead(reqs[r]).kind = "mistyped"
    /\ reqs[r].err = ParseError
    /\ reqs[r].pc = "done"
    /\ files.disk[reqs[r].path].kind = "json"

-----------------------------------------------------------------------------
(* C13: each request works on the snapshot it has loaded *)

\* the snapshot that the content read by the request parses to
OwnSnapshot(rq) ==
  IF ContentRead(rq).kind = "json" THEN Unmarshal(ContentRead(rq).fields) ELSE NoData

\* the values the analyzer method behind a section may return on snapshot d
SectionFrom(section, d, count) ==
  IF section = "Summary" THEN {GetSummaryResult(d)}
  ELSE IF section = "Leaks" THEN AnalyzeLeaksResults(d, NoOutcomes)
  ELSE IF section = "Fragmentation" THEN {AnalyzeFragmentationResult(d)}
  ELSE IF section = "LargeAllocs" THEN {AnalyzeLargeAllocationsResult(d)}
  ELSE {TopLeakersReport(leaks, count) : leaks \in SortedLeakCopies(d, NoOutcomes)}

\* the sections of a tool's result, in the order they are computed
SectionsOf(tool) ==
  IF tool = "analyze_leaks" THEN <<"Leaks">>
  ELSE IF tool = "get_summary" THEN <<"Summary">>
  ELSE IF tool = "get_top_leakers" THEN <<"TopLeakers">>
  ELSE IF tool = "analyze_fragmentation" THEN <<"Fragmentation">>
  ELSE IF tool = "find_large_allocations" THEN <<"LargeAllocs">>
  ELSE <<"Summary", "Leaks", "Fragmentation", "LargeAllocs">>

\* C13: under any interleaving of the requests (and of rewrites of the file)
\* each request has loaded exactly once, holds the snapshot of what that load
\* read, and every section computed so far is what its analyzer method gives
\* on that snapshot, whatever other requests have loaded; a finished
\* get_all_issues has its four sections, all from that one snapshot.
T_C13_OwnSnapshot ==
  \A r \in Started :
    LET rq == reqs[r]
        own == OwnSnapshot(rq)
    IN  /\ rq.loads = 1
        /\ Len(rq.read) = 1
        /\ rq.analyzer = own
        /\ Len(rq.sections) <= Len(SectionsOf(rq.tool))
        /\ \A i \in DOMAIN rq.sections :
             /\ rq.sections[i][1] = SectionsOf(rq.tool)[i]
             /\ rq.sections[i][2] \in SectionFrom(rq.sections[i][1], own, rq.count)
        /\ (rq.pc = "done" /\ rq.err = NoError) =>
             Len(rq.sections) = Len(SectionsOf(rq.tool))

\* a get_all_issues request is before its last section with three sections
\* from one report, another request has finished on a different report, and
\* the file holds neither report any more
W_C13_Interleaved ==
  \E r1 \in Started, r2 \in Started :
    /\ reqs[r1].tool = "get_all_issues"
    /\ reqs[r1].pc = "largeAllocs"
    /\ ContentRead(reqs[r1]) = Document(ReportA)
    /\ reqs[r2].tool = "analyze_leaks"
    /\ reqs[r2].pc = "done"
    /\ ContentRead(reqs[r2]) = Document(ReportB)
    /\ reqs[r2].sections[1][2] # <<>>
    /\ reqs[r1].sections[2][2] # <<>>
    /\ reqs[r1].sections[2][2] # reqs[r2].sections[1][2]
    /\ files.disk[reqs[r1].path] = Unreadable

====
